---- MODULE Spec2Model ----
(***************************************************************************)
(* Listing decision engine of ai-goofish-monitor:                          *)
(*   - src/keyword_rule_engine.py : the keyword rule evaluator             *)
(*   - src/domain/models/task.py  : the Task entity and its DTOs           *)
(*   - src/config.py              : the AI runtime configuration resolver  *)
(*                                                                         *)
(* Python strings that the code takes apart are sequences of one-character *)
(* strings, and None among them is the one-element sequence None, whose    *)
(* element is no character of any alphabet used below. Strings the code    *)
(* only compares or copies are TLA+ strings, with PyNone for None.         *)
(*                                                                         *)
(* Each component has its own specification (SpecEval, SpecNorm, SpecCtor, *)
(* SpecTask, SpecConfig); the variables of the other components stay at    *)
(* rest in it.                                                             *)
(***************************************************************************)
EXTENDS Integers, Sequences, FiniteSets, TLC

VARIABLES
    groups,        \* evaluate_keyword_rules: the groups argument
    search_text,   \* evaluate_keyword_rules: the search_text argument
    verdict,       \* evaluate_keyword_rules: the returned dict, or NoVerdict
    kw_value,      \* _normalize_keyword_values: the value argument
    kw_result,     \* _normalize_keyword_values: the returned list, or NotReturned
    payload,       \* the keyword arguments given to Task(...) or TaskCreate(...)
    built,         \* what the constructor call produced: a value or a ValidationError
    task,          \* the Task t that apply_update, can_start and can_stop are called on
    update,        \* the TaskUpdate u that passed validation
    result,        \* the Task that t.apply_update(u) returned
    phase,         \* "idle", "built" (u exists), "applied" (apply_update returned)
    ret,           \* the last value returned by can_start or can_stop on t
    os_environ,    \* os.environ, the process environment
    env,           \* resolve_ai_runtime_config: the env argument of the last call
    source_read,   \* resolve_ai_runtime_config: the mapping the last call read (line 30)
    runtime        \* resolve_ai_runtime_config: the dict the last call returned

evalVars == <<groups, search_text, verdict>>
normVars == <<kw_value, kw_result>>
ctorVars == <<payload, built>>
taskVars == <<task, update, result, phase, ret>>
configVars == <<os_environ, env, source_read, runtime>>

vars == <<evalVars, normVars, ctorVars, taskVars, configVars>>

(***************************************************************************)
(* Bounds of the model.                                                    *)
(***************************************************************************)
MaxTextLen == 3     \* longest search text
MaxInclude == 2     \* longest include_keywords list of the single-group inputs
MaxExclude == 1     \* longest exclude_keywords list of the single-group inputs
MaxGroups == 3      \* longest group list drawn from GroupPool
MaxRawLen == 4      \* longest delimited keyword string
MaxItems == 3       \* longest keyword sequence given to the normalizer
MaxUpdateFields == 3 \* most fields one TaskUpdate sets

(***************************************************************************)
(* Strings.                                                                *)
(***************************************************************************)
None == <<"<None>">>

Whitespace == {" ", "LF"}

\* str.lower() on one character
LowerChar(c) ==
    CASE c = "A" -> "a"
      [] c = "B" -> "b"
      [] OTHER -> c

\* str.lower()
Lower(s) == [i \in 1..Len(s) |-> LowerChar(s[i])]

\* str.strip(): leading and trailing whitespace removed
RECURSIVE LStrip(_)
LStrip(s) ==
    IF s # <<>> /\ Head(s) \in Whitespace THEN LStrip(Tail(s)) ELSE s

RECURSIVE RStrip(_)
RStrip(s) ==
    IF s # <<>> /\ s[Len(s)] \in Whitespace
    THEN RStrip(SubSeq(s, 1, Len(s) - 1))
    ELSE s

Strip(s) == RStrip(LStrip(s))

\* str.split() without arguments: the maximal runs of non-whitespace
RECURSIVE SplitWords(_, _, _, _)
SplitWords(s, i, cur, acc) ==
    IF i > Len(s)
    THEN IF cur = <<>> THEN acc ELSE Append(acc, cur)
    ELSE IF s[i] \in Whitespace
         THEN SplitWords(s, i + 1, <<>>, IF cur = <<>> THEN acc ELSE Append(acc, cur))
         ELSE SplitWords(s, i + 1, Append(cur, s[i]), acc)

\* sep.join(parts)
RECURSIVE Join(_, _)
Join(parts, sep) ==
    IF parts = <<>> THEN <<>>
    ELSE IF Len(parts) = 1 THEN parts[1]
    ELSE parts[1] \o sep \o Join(Tail(parts), sep)

\* needle in hay
Contains(hay, needle) ==
    \E i \in 0..(Len(hay) - Len(needle)) :
        SubSeq(hay, i + 1, i + Len(needle)) = needle

\* all sequences over S of length at most n
SeqsUpTo(S, n) == UNION {[1..k -> S] : k \in 0..n}

(***************************************************************************)
(* src/keyword_rule_engine.py                                              *)
(***************************************************************************)
\* normalize_text(value): " ".join((value or "").lower().split())
normalize_text(value) ==
    Join(SplitWords(Lower(IF value = None THEN <<>> ELSE value), 1, <<>>, <<>>), <<" ">>)

\* _normalize_keywords(values): normalized, blanks and repeats dropped
RECURSIVE NormalizeKeywordsLoop(_, _, _)
NormalizeKeywordsLoop(values, i, normalized) ==
    IF i > Len(values) THEN normalized
    ELSE LET text == normalize_text(Strip(values[i]))
         IN  IF text = <<>> \/ (\E j \in 1..Len(normalized) : normalized[j] = text)
             THEN NormalizeKeywordsLoop(values, i + 1, normalized)
             ELSE NormalizeKeywordsLoop(values, i + 1, Append(normalized, text))

_normalize_keywords(values) == NormalizeKeywordsLoop(values, 1, <<>>)

\* f"规则组{index}": the positional fallback name
IndexDigits == <<"1", "2", "3", "4", "5", "6", "7", "8", "9">>

fallback_name(index) == <<"rule_group#", IndexDigits[index]>>

\* _extract_group_fields(group, fallback_name); a group is a mapping or an
\* object (kind), read through .get or getattr to the same three fields
_extract_group_fields(group, fallback) ==
    [name |-> IF group.name # None /\ group.name # <<>>
              THEN Strip(group.name)
              ELSE fallback,
     include_keywords |-> _normalize_keywords(group.include_keywords),
     exclude_keywords |-> _normalize_keywords(group.exclude_keywords)]

\* group_fail_reasons[:3]
ReasonCap == 3

NoTextVerdict ==
    [analysis_source |-> "keyword", is_recommended |-> FALSE,
     reason |-> [kind |-> "no_text", parts |-> <<>>],
     matched_groups |-> <<>>, matched_keywords |-> <<>>, blocked_keywords |-> <<>>]

NoGroupsVerdict ==
    [analysis_source |-> "keyword", is_recommended |-> FALSE,
     reason |-> [kind |-> "no_groups", parts |-> <<>>],
     matched_groups |-> <<>>, matched_keywords |-> <<>>, blocked_keywords |-> <<>>]

\* NoMatchVerdict that reports the exclude keywords the first failed group hit
NoMatchVerdictReportsBlocked(group_fail_reasons) ==
    [analysis_source |-> "keyword", is_recommended |-> FALSE,
     reason |-> IF group_fail_reasons # <<>>
                THEN [kind |-> "group_failures",
                      parts |-> SubSeq(group_fail_reasons, 1,
                                       IF Len(group_fail_reasons) < ReasonCap
                                       THEN Len(group_fail_reasons) ELSE ReasonCap)]
                ELSE [kind |-> "nothing_matched", parts |-> <<>>],
     matched_groups |-> <<>>, matched_keywords |-> <<>>,
     blocked_keywords |-> IF group_fail_reasons # <<>>
                          THEN group_fail_reasons[1].blocked ELSE <<>>]

\* lines 127-135: no group matched
NoMatchVerdict(group_fail_reasons) ==
    [analysis_source |-> "keyword", is_recommended |-> FALSE,
     reason |-> IF group_fail_reasons # <<>>
                THEN [kind |-> "group_failures",
                      parts |-> SubSeq(group_fail_reasons, 1,
                                       IF Len(group_fail_reasons) < ReasonCap
                                       THEN Len(group_fail_reasons) ELSE ReasonCap)]
                ELSE [kind |-> "nothing_matched", parts |-> <<>>],
     matched_groups |-> <<>>, matched_keywords |-> <<>>, blocked_keywords |-> <<>>]

\* lines 118-125: the group matched
MatchVerdict(group) ==
    [analysis_source |-> "keyword", is_recommended |-> TRUE,
     reason |-> [kind |-> "matched", parts |-> <<group.name>>],
     matched_groups |-> <<group.name>>,
     matched_keywords |-> group.include_keywords,
     blocked_keywords |-> <<>>]

\* kw not in normalized_text, for the include keywords
Missing(include_keywords, normalized_text) ==
    SelectSeq(include_keywords, LAMBDA kw : ~Contains(normalized_text, kw))

\* Blocked with the exclude keywords never looked at
BlockedIgnored(exclude_keywords, normalized_text) == <<>>

\* kw in normalized_text, for the exclude keywords
Blocked(exclude_keywords, normalized_text) ==
    SelectSeq(exclude_keywords, LAMBDA kw : Contains(normalized_text, kw))

\* GroupLoop that keeps looking after a match and reports the last one
RECURSIVE GroupLoopLastWins(_, _, _, _)
GroupLoopLastWins(gs, normalized_text, index, group_fail_reasons) ==
    IF index > Len(gs) THEN NoMatchVerdict(group_fail_reasons)
    ELSE LET group == _extract_group_fields(gs[index], fallback_name(index))
             missing == Missing(group.include_keywords, normalized_text)
             blocked == Blocked(group.exclude_keywords, normalized_text)
             rest == GroupLoopLastWins(gs, normalized_text, index + 1,
                        Append(group_fail_reasons,
                               [name |-> group.name, detail |-> "failed",
                                missing |-> missing, blocked |-> blocked]))
         IN  IF group.include_keywords = <<>> \/ missing # <<>> \/ blocked # <<>>
             THEN rest
             ELSE IF rest.is_recommended THEN rest ELSE MatchVerdict(group)

\* lines 96-135: the loop over enumerate(groups, start=1)
RECURSIVE GroupLoop(_, _, _, _)
GroupLoop(gs, normalized_text, index, group_fail_reasons) ==
    IF index > Len(gs) THEN NoMatchVerdict(group_fail_reasons)
    ELSE LET group == _extract_group_fields(gs[index], fallback_name(index))
             missing == Missing(group.include_keywords, normalized_text)
             blocked == Blocked(group.exclude_keywords, normalized_text)
         IN  IF group.include_keywords = <<>>
             THEN GroupLoop(gs, normalized_text, index + 1,
                      Append(group_fail_reasons,
                             [name |-> group.name, detail |-> "no_include",
                              missing |-> <<>>, blocked |-> <<>>]))
             ELSE IF missing # <<>> \/ blocked # <<>>
             THEN GroupLoop(gs, normalized_text, index + 1,
                      Append(group_fail_reasons,
                             [name |-> group.name, detail |-> "failed",
                              missing |-> missing, blocked |-> blocked]))
             ELSE MatchVerdict(group)

\* evaluate_keyword_rules with the two early returns in the other order
evaluate_keyword_rules_groups_first(gs, text) ==
    LET normalized_text == normalize_text(text)
    IN  IF gs = <<>> THEN NoGroupsVerdict
        ELSE IF normalized_text = <<>> THEN NoTextVerdict
        ELSE GroupLoop(gs, normalized_text, 1, <<>>)

\* evaluate_keyword_rules(groups, search_text)
evaluate_keyword_rules(gs, text) ==
    LET normalized_text == normalize_text(text)
    IN  IF normalized_text = <<>> THEN NoTextVerdict
        ELSE IF gs = <<>> THEN NoGroupsVerdict
        ELSE GroupLoop(gs, normalized_text, 1, <<>>)

(***************************************************************************)
(* src/domain/models/task.py: keyword normalization                        *)
(***************************************************************************)
\* the delimiters of re.split(r"[\n,]+", value)
Delimiters == {"LF", ","}

\* re.split(r"[\n,]+", value): cut at every maximal run of delimiters
RECURSIVE ReSplit(_, _, _, _)
ReSplit(s, i, cur, acc) ==
    IF i > Len(s) THEN Append(acc, cur)
    ELSE IF s[i] \in Delimiters
         THEN IF i > 1 /\ s[i - 1] \in Delimiters
              THEN ReSplit(s, i + 1, cur, acc)
              ELSE ReSplit(s, i + 1, <<>>, Append(acc, cur))
         ELSE ReSplit(s, i + 1, Append(cur, s[i]), acc)

\* lines 19-28: the raw values of a None, a sequence or a delimited string
RawValues(value) ==
    CASE value.type = "none" -> <<>>
      [] value.type = "list" -> value.v
      [] value.type = "str" -> ReSplit(value.v, 1, <<>>, <<>>)

\* the dedup key of a stripped keyword, compared as written
DedupKeyCaseSensitive(text) == text

\* line 36: dedup_key = text.lower()
DedupKey(text) == Lower(text)

\* lines 30-41: strip, drop blanks, keep the first of each dedup key
RECURSIVE NormalizeValuesLoop(_, _, _, _)
NormalizeValuesLoop(raw_values, i, normalized, seen) ==
    IF i > Len(raw_values) THEN normalized
    ELSE LET text == Strip(raw_values[i])
         IN  IF text = <<>> \/ DedupKey(text) \in seen
             THEN NormalizeValuesLoop(raw_values, i + 1, normalized, seen)
             ELSE NormalizeValuesLoop(raw_values, i + 1, Append(normalized, text),
                                      seen \cup {DedupKey(text)})

\* _normalize_keyword_values(value)
_normalize_keyword_values(value) ==
    IF value.type = "none" THEN <<>>
    ELSE NormalizeValuesLoop(RawValues(value), 1, <<>>, {})

NoneValue == [type |-> "none", v |-> <<>>]
ListValue(items) == [type |-> "list", v |-> items]
StrValue(text) == [type |-> "str", v |-> text]

\* KeywordRuleGroup.normalize_name
normalize_name(v) ==
    IF v = None THEN None
    ELSE IF Strip(v) = <<>> THEN None ELSE Strip(v)

\* KeywordRuleGroup(**raw): the validated group object
KeywordRuleGroup(raw) ==
    [kind |-> "object",
     name |-> normalize_name(raw.name),
     include_keywords |-> _normalize_keyword_values(raw.include_keywords),
     exclude_keywords |-> _normalize_keyword_values(raw.exclude_keywords)]

(***************************************************************************)
(* src/domain/models/task.py: Task, TaskCreate, TaskUpdate                 *)
(***************************************************************************)
\* True, False and None as the values of a field that is only copied or tested
PyTrue == "True"
PyFalse == "False"
PyNone == "None"

\* bool(x) of such a value
Truthy(x) == x = PyTrue

\* None as the value of keyword_rule_groups
NoneGroups ==
    <<[kind |-> "<None>", name |-> None, include_keywords |-> <<>>, exclude_keywords |-> <<>>]>>

\* The fields of Task, TaskCreate and TaskUpdate that the model follows.
\* task_name stands for the fields no validator reads (id, keyword,
\* max_pages, cron, ...): they are declared, defaulted and copied alike.
TaskFields ==
    {"task_name", "enabled", "description", "decision_mode",
     "keyword_rule_groups", "is_running"}

\* _has_valid_keyword_groups(groups); getattr(group, "include_keywords", None)
\* finds the attribute on a KeywordRuleGroup object and not on a dict
_has_valid_keyword_groups(gs) ==
    /\ gs # NoneGroups
    /\ gs # <<>>
    /\ \E i \in 1..Len(gs) :
          gs[i].kind = "object" /\ gs[i].include_keywords # <<>>

\* a keyword argument that is not given
Absent == <<"<absent>">>
AbsentMode == "<absent>"
AbsentGroups ==
    <<[name |-> Absent, include_keywords |-> NoneValue, exclude_keywords |-> NoneValue]>>

\* List[KeywordRuleGroup]: every raw group validated
GroupObjects(raw) == [i \in 1..Len(raw) |-> KeywordRuleGroup(raw[i])]

\* the field values of TaskCreate(**payload): lines 113-129, defaults applied
TaskCreateValues(p) ==
    [task_name |-> p.task_name,
     enabled |-> p.enabled,
     description |-> IF p.description = Absent THEN <<>> ELSE p.description,
     decision_mode |-> IF p.decision_mode = AbsentMode THEN "ai" ELSE p.decision_mode,
     keyword_rule_groups |-> IF p.keyword_rule_groups = AbsentGroups
                             THEN <<>>
                             ELSE GroupObjects(p.keyword_rule_groups)]

\* TaskCreate.validate_decision_mode_payload(values) raises ValueError
TaskCreateRaises(values) ==
    LET mode == values.decision_mode
        description == Strip(IF values.description = None THEN <<>> ELSE values.description)
        keyword_groups == values.keyword_rule_groups
    IN  \/ mode = "ai" /\ description = <<>>
        \/ mode = "keyword" /\ ~_has_valid_keyword_groups(keyword_groups)

\* the field values of Task(**payload): lines 74-92, defaults applied; the
\* class has no root validator
TaskValues(p) ==
    [task_name |-> p.task_name,
     enabled |-> p.enabled,
     description |-> IF p.description = Absent THEN <<>> ELSE p.description,
     decision_mode |-> IF p.decision_mode = AbsentMode THEN "ai" ELSE p.decision_mode,
     keyword_rule_groups |-> IF p.keyword_rule_groups = AbsentGroups
                             THEN <<>>
                             ELSE GroupObjects(p.keyword_rule_groups),
     is_running |-> PyFalse]

\* the Task made of a TaskCreate that passed validation: its fields, and
\* is_running at its default
TaskFromCreate(values) ==
    [task_name |-> values.task_name,
     enabled |-> values.enabled,
     description |-> values.description,
     decision_mode |-> values.decision_mode,
     keyword_rule_groups |-> values.keyword_rule_groups,
     is_running |-> PyFalse]

\* the value of a TaskUpdate field that was not set (lines 155-172), and of
\* one set to None
FieldNone(f) ==
    CASE f = "description" -> None
      [] f = "keyword_rule_groups" -> NoneGroups
      [] OTHER -> PyNone

\* TaskUpdate.validate_partial_keyword_payload(values) raises ValueError
TaskUpdateRaises(values) ==
    LET mode == values.decision_mode
        gs == values.keyword_rule_groups
        description == values.description
    IN  \/ mode = "keyword" /\ gs # NoneGroups /\ ~_has_valid_keyword_groups(gs)
        \/ mode = "ai" /\ description # None /\ Strip(description) = <<>>

\* a KeywordRuleGroup as .dict() returns it: a plain mapping
DictOf(group) == [group EXCEPT !.kind = "dict"]

\* the value of field f in update.dict(): sub-models become mappings
Dumped(f, v) ==
    IF f = "keyword_rule_groups" /\ v # NoneGroups
    THEN [i \in 1..Len(v) |-> DictOf(v[i])]
    ELSE v

\* update.dict(exclude_unset=True)
UpdateData(u) == [f \in u.fields_set |-> Dumped(f, u.values[f])]

\* Task.apply_update(update): self.copy(update=update_data), not validated
apply_update(t, u) ==
    LET update_data == UpdateData(u)
    IN  [f \in TaskFields |-> IF f \in DOMAIN update_data THEN update_data[f] ELSE t[f]]

\* can_start that forgets is_running
can_start_enabled_only(t) == t.enabled

\* Task.can_start(): self.enabled and not self.is_running
can_start(t) ==
    IF ~Truthy(t.enabled) THEN t.enabled
    ELSE IF Truthy(t.is_running) THEN PyFalse ELSE PyTrue

\* Task.can_stop(): self.is_running
can_stop(t) == t.is_running

(***************************************************************************)
(* src/config.py                                                           *)
(***************************************************************************)
GEMINI_OPENAI_COMPAT_BASE_URL == "https://generativelanguage.googleapis.com/v1beta/openai/"
GEMINI_DEFAULT_MODEL_NAME == "gemini-2.0-flash"

\* the names a mapping of environment values may hold; PROXY_URL stands for
\* every name the resolver does not read
EnvNames ==
    {"OPENAI_API_KEY", "GEMINI_API_KEY", "OPENAI_BASE_URL", "OPENAI_MODEL_NAME", "PROXY_URL"}

\* a name the mapping does not hold
NotSet == "<not set>"

\* mapping.get(name)
Get(mapping, name) == IF mapping[name] = NotSet THEN PyNone ELSE mapping[name]

\* bool(mapping): a mapping that holds no name is falsy
IsEmptyMapping(mapping) == \A name \in EnvNames : mapping[name] = NotSet

\* bool(x) of a string or None
NonEmpty(x) == x # PyNone /\ x # ""

\* a or b
Or(a, b) == IF NonEmpty(a) THEN a ELSE b

\* line 30: source = env or os.environ; env is None when no argument is given
Source(e, environ) ==
    IF e.given /\ ~IsEmptyMapping(e.mapping) THEN e.mapping ELSE environ

\* use_gemini_defaults whenever a Gemini key is there
UseGeminiDefaultsAnyKey(openai_api_key, gemini_api_key) == NonEmpty(gemini_api_key)

\* line 37: bool(gemini_api_key and not openai_api_key)
UseGeminiDefaults(openai_api_key, gemini_api_key) ==
    NonEmpty(gemini_api_key) /\ ~NonEmpty(openai_api_key)

\* resolve_ai_runtime_config(env)
resolve_ai_runtime_config(e, environ) ==
    LET source == Source(e, environ)
        openai_api_key == Get(source, "OPENAI_API_KEY")
        gemini_api_key == Get(source, "GEMINI_API_KEY")
        base_url == Or(Get(source, "OPENAI_BASE_URL"), "")
        model_name == Or(Get(source, "OPENAI_MODEL_NAME"), "")
        use_gemini_defaults == UseGeminiDefaults(openai_api_key, gemini_api_key)
    IN  [api_key |-> Or(openai_api_key, gemini_api_key),
         base_url |-> Or(base_url, IF use_gemini_defaults
                                   THEN GEMINI_OPENAI_COMPAT_BASE_URL ELSE ""),
         model_name |-> Or(model_name, IF use_gemini_defaults
                                       THEN GEMINI_DEFAULT_MODEL_NAME ELSE ""),
         is_gemini_openai_compat |-> use_gemini_defaults]

(***************************************************************************)
(* The normalizer's inputs.                                                *)
(***************************************************************************)
RawAlphabet == {"a", "A", " ", ",", "LF"}

\* the items of keyword sequences: blank, padded, and differing in case only
ItemPool == {<<>>, <<" ">>, <<"a">>, <<"A">>, <<" ", "a">>, <<"a", " ">>, <<"a", "A">>}

KeywordValues ==
    {NoneValue}
    \cup {ListValue(items) : items \in SeqsUpTo(ItemPool, MaxItems)}
    \cup {StrValue(text) : text \in SeqsUpTo(RawAlphabet, MaxRawLen)}

(***************************************************************************)
(* The evaluator's inputs.                                                 *)
(***************************************************************************)
TextAlphabet == {"a", "B", " "}

Texts == SeqsUpTo(TextAlphabet, MaxTextLen) \cup {None}

\* raw keywords: plain, upper case, padded, and blank
KeywordPool == {<<"a">>, <<"B">>, <<" ", "a">>, <<" ">>}

\* one group with every keyword list within the bounds
SingleGroups ==
    {<<[kind |-> "dict", name |-> None, include_keywords |-> inc, exclude_keywords |-> exc]>> :
        inc \in SeqsUpTo(KeywordPool, MaxInclude),
        exc \in SeqsUpTo(KeywordPool, MaxExclude)}

GroupPool ==
    {[kind |-> "dict", name |-> None,
      include_keywords |-> <<>>, exclude_keywords |-> <<>>],
     [kind |-> "object", name |-> <<"x">>,
      include_keywords |-> <<<<"a">>>>, exclude_keywords |-> <<>>],
     [kind |-> "dict", name |-> None,
      include_keywords |-> <<<<"B">>>>, exclude_keywords |-> <<>>],
     [kind |-> "dict", name |-> <<" ", "y", " ">>,
      include_keywords |-> <<<<"a">>, <<"B">>>>, exclude_keywords |-> <<>>],
     [kind |-> "object", name |-> <<>>,
      include_keywords |-> <<<<"a">>>>, exclude_keywords |-> <<<<"B">>>>],
     [kind |-> "dict", name |-> <<" ">>,
      include_keywords |-> <<<<" ">>>>, exclude_keywords |-> <<>>]}

GroupLists == SeqsUpTo(GroupPool, MaxGroups) \cup SingleGroups

(***************************************************************************)
(* The inputs of the Task constructors and of apply_update.                *)
(***************************************************************************)
\* raw rule groups as an API payload gives them
RawEmpty ==
    [name |-> None, include_keywords |-> ListValue(<<>>), exclude_keywords |-> NoneValue]
RawBlank ==
    [name |-> <<" ">>, include_keywords |-> StrValue(<<" ", ",">>),
     exclude_keywords |-> ListValue(<<>>)]
RawValid ==
    [name |-> <<" ", "g">>, include_keywords |-> StrValue(<<"a", ",", "A">>),
     exclude_keywords |-> ListValue(<<<<"A">>>>)]

RawGroupLists == {<<>>, <<RawEmpty>>, <<RawBlank>>, <<RawValid>>}

\* the keyword arguments of Task(...) and TaskCreate(...)
CtorPayloads ==
    [task_name : {"t1"},
     enabled : {PyTrue, PyFalse},
     description : {Absent, None, <<>>, <<" ">>, <<"d">>},
     decision_mode : {AbsentMode, "ai", "keyword"},
     keyword_rule_groups : RawGroupLists \cup {AbsentGroups}]

\* the Tasks made of a TaskCreate that passed validation
CreatedTasks ==
    {TaskFromCreate(TaskCreateValues(p)) :
        p \in {q \in CtorPayloads : ~TaskCreateRaises(TaskCreateValues(q))}}

\* the values a TaskUpdate field can be set to; null is a value of the
\* Optional fields
UpdateGroupValues == {NoneGroups} \cup {GroupObjects(raw) : raw \in RawGroupLists}

UpdateDomain(f) ==
    CASE f = "task_name" -> {"t2"}
      [] f = "enabled" -> {PyTrue, PyFalse, PyNone}
      [] f = "description" -> {None, <<>>, <<" ">>, <<"d">>}
      [] f = "decision_mode" -> {"ai", "keyword"}
      [] f = "keyword_rule_groups" -> UpdateGroupValues
      [] f = "is_running" -> {PyTrue, PyFalse, PyNone}

\* the values field f of a TaskUpdate takes when fs are the fields set
FieldValues(f, fs) == IF f \in fs THEN UpdateDomain(f) ELSE {FieldNone(f)}

\* TaskUpdate objects: the fields that were set (__fields_set__) and the
\* value of every field; a request sets at most MaxUpdateFields of them
TaskUpdates ==
    UNION {{[fields_set |-> fs, values |-> v] :
               v \in [task_name : FieldValues("task_name", fs),
                      enabled : FieldValues("enabled", fs),
                      description : FieldValues("description", fs),
                      decision_mode : FieldValues("decision_mode", fs),
                      keyword_rule_groups : FieldValues("keyword_rule_groups", fs),
                      is_running : FieldValues("is_running", fs)]} :
           fs \in {x \in SUBSET TaskFields : Cardinality(x) <= MaxUpdateFields}}

(***************************************************************************)
(* The resolver's inputs.                                                  *)
(***************************************************************************)
EmptyMapping == [name \in EnvNames |-> NotSet]

\* the mappings a caller passes
EnvMappings ==
    {m \in [EnvNames -> {NotSet, "", "openai-key", "gemini-key", "https://example.com/v1/",
                         GEMINI_OPENAI_COMPAT_BASE_URL, "custom-model", "http://proxy"}] :
        /\ m["OPENAI_API_KEY"] \in {NotSet, "", "openai-key"}
        /\ m["GEMINI_API_KEY"] \in {NotSet, "", "gemini-key"}
        /\ m["OPENAI_BASE_URL"] \in
              {NotSet, "", "https://example.com/v1/", GEMINI_OPENAI_COMPAT_BASE_URL}
        /\ m["OPENAI_MODEL_NAME"] \in {NotSet, "", "custom-model"}
        /\ m["PROXY_URL"] \in {NotSet, "http://proxy"}}

\* resolve_ai_runtime_config() and resolve_ai_runtime_config(mapping)
NoEnvArg == [given |-> FALSE, mapping |-> EmptyMapping]
EnvArgs == {NoEnvArg} \cup {[given |-> TRUE, mapping |-> m] : m \in EnvMappings}

\* the process environments the module is loaded in
ProcessEnvs ==
    {m \in [EnvNames -> {NotSet, "env-openai-key", "env-gemini-key",
                         "https://env.example/v1/", "env-model"}] :
        /\ m["OPENAI_API_KEY"] \in {NotSet, "env-openai-key"}
        /\ m["GEMINI_API_KEY"] \in {NotSet, "env-gemini-key"}
        /\ m["OPENAI_BASE_URL"] \in {NotSet, "https://env.example/v1/"}
        /\ m["OPENAI_MODEL_NAME"] \in {NotSet, "env-model"}
        /\ m["PROXY_URL"] = NotSet}

(***************************************************************************)
(* The components at rest.                                                 *)
(***************************************************************************)
\* no call has returned yet
NoVerdict ==
    [analysis_source |-> "<pending>", is_recommended |-> FALSE,
     reason |-> [kind |-> "<pending>", parts |-> <<>>],
     matched_groups |-> <<>>, matched_keywords |-> <<>>, blocked_keywords |-> <<>>]

NotReturned == <<None>>

NotBuilt == [cls |-> "none", error |-> FALSE, value |-> <<>>]

NoTask == [f \in TaskFields |-> FieldNone(f)]

EmptyUpdate == [fields_set |-> {}, values |-> [f \in TaskFields |-> FieldNone(f)]]

NoRet == [op |-> "none", value |-> PyNone, self |-> NoTask]

EvalIdle ==
    /\ groups = <<>>
    /\ search_text = <<>>
    /\ verdict = NoVerdict

NormIdle ==
    /\ kw_value = NoneValue
    /\ kw_result = NotReturned

CtorIdle ==
    /\ payload = [task_name |-> "t1", enabled |-> PyTrue, description |-> Absent,
                  decision_mode |-> AbsentMode, keyword_rule_groups |-> AbsentGroups]
    /\ built = NotBuilt

TaskIdle ==
    /\ task = NoTask
    /\ update = EmptyUpdate
    /\ result = NoTask
    /\ phase = "idle"
    /\ ret = NoRet

ConfigIdle ==
    /\ os_environ = EmptyMapping
    /\ env = NoEnvArg
    /\ source_read = EmptyMapping
    /\ runtime = resolve_ai_runtime_config(NoEnvArg, EmptyMapping)

(***************************************************************************)
(* SpecEval: calls of evaluate_keyword_rules.                              *)
(***************************************************************************)
InitEval ==
    /\ groups \in GroupLists
    /\ search_text \in Texts
    /\ verdict = NoVerdict
    /\ NormIdle /\ CtorIdle /\ TaskIdle /\ ConfigIdle

\* one call of evaluate_keyword_rules
EvaluateKeywordRules ==
    /\ verdict = NoVerdict
    /\ verdict' = evaluate_keyword_rules(groups, search_text)
    /\ UNCHANGED <<groups, search_text, normVars, ctorVars, taskVars, configVars>>

NextEval == EvaluateKeywordRules

SpecEval == InitEval /\ [][NextEval]_vars

(***************************************************************************)
(* SpecNorm: calls of _normalize_keyword_values.                           *)
(***************************************************************************)
InitNorm ==
    /\ kw_value \in KeywordValues
    /\ kw_result = NotReturned
    /\ EvalIdle /\ CtorIdle /\ TaskIdle /\ ConfigIdle

\* one call of _normalize_keyword_values, as KeywordRuleGroup's validator makes
NormalizeKeywordList ==
    /\ kw_result = NotReturned
    /\ kw_result' = _normalize_keyword_values(kw_value)
    /\ UNCHANGED <<kw_value, evalVars, ctorVars, taskVars, configVars>>

\* the returned list is validated again (a group dumped and rebuilt)
NormalizeAgain ==
    /\ kw_result # NotReturned
    /\ kw_value # ListValue(kw_result)
    /\ kw_value' = ListValue(kw_result)
    /\ kw_result' = NotReturned
    /\ UNCHANGED <<evalVars, ctorVars, taskVars, configVars>>

NextNorm == NormalizeKeywordList \/ NormalizeAgain

SpecNorm == InitNorm /\ [][NextNorm]_vars

(***************************************************************************)
(* SpecCtor: calls of the constructors Task and TaskCreate.                *)
(***************************************************************************)
InitCtor ==
    /\ payload \in CtorPayloads
    /\ built = NotBuilt
    /\ EvalIdle /\ NormIdle /\ TaskIdle /\ ConfigIdle

\* TaskCreate(**payload): the root validator runs on the field values
ConstructTaskCreate ==
    /\ built = NotBuilt
    /\ built' = IF TaskCreateRaises(TaskCreateValues(payload))
                THEN [cls |-> "TaskCreate", error |-> TRUE, value |-> <<>>]
                ELSE [cls |-> "TaskCreate", error |-> FALSE,
                      value |-> <<TaskCreateValues(payload)>>]
    /\ UNCHANGED <<payload, evalVars, normVars, taskVars, configVars>>

\* Task(**payload): the fields are validated one by one, and nothing else
ConstructTask ==
    /\ built = NotBuilt
    /\ built' = [cls |-> "Task", error |-> FALSE, value |-> <<TaskValues(payload)>>]
    /\ UNCHANGED <<payload, evalVars, normVars, taskVars, configVars>>

NextCtor == ConstructTaskCreate \/ ConstructTask

SpecCtor == InitCtor /\ [][NextCtor]_vars

(***************************************************************************)
(* SpecTask: a Task made of a valid TaskCreate, updated and queried.       *)
(***************************************************************************)
InitTask ==
    /\ task \in CreatedTasks
    /\ update = EmptyUpdate
    /\ result = NoTask
    /\ phase = "idle"
    /\ ret = NoRet
    /\ EvalIdle /\ NormIdle /\ CtorIdle /\ ConfigIdle

\* TaskUpdate(**payload) passes validate_partial_keyword_payload
BuildTaskUpdate ==
    /\ phase = "idle"
    /\ \E u \in TaskUpdates :
          /\ ~TaskUpdateRaises(u.values)
          /\ update' = u
    /\ phase' = "built"
    /\ ret' = NoRet
    /\ UNCHANGED <<task, result, evalVars, normVars, ctorVars, configVars>>

\* result = task.apply_update(update)
ApplyUpdate ==
    /\ phase = "built"
    /\ result' = apply_update(task, update)
    /\ phase' = "applied"
    /\ UNCHANGED <<task, update, ret, evalVars, normVars, ctorVars, configVars>>

\* the caller goes on with the Task that apply_update returned
KeepResult ==
    /\ phase = "applied"
    /\ task' = result
    /\ update' = EmptyUpdate
    /\ result' = NoTask
    /\ phase' = "idle"
    /\ UNCHANGED <<ret, evalVars, normVars, ctorVars, configVars>>

\* task.can_start()
CanStart ==
    /\ phase = "idle"
    /\ ret' = [op |-> "can_start", value |-> can_start(task), self |-> task]
    /\ UNCHANGED <<task, update, result, phase, evalVars, normVars, ctorVars, configVars>>

\* task.can_stop()
CanStop ==
    /\ phase = "idle"
    /\ ret' = [op |-> "can_stop", value |-> can_stop(task), self |-> task]
    /\ UNCHANGED <<task, update, result, phase, evalVars, normVars, ctorVars, configVars>>

NextTask == BuildTaskUpdate \/ ApplyUpdate \/ KeepResult \/ CanStart \/ CanStop

SpecTask == InitTask /\ [][NextTask]_vars

(***************************************************************************)
(* SpecConfig: the module is loaded, then resolve_ai_runtime_config is     *)
(* called with mappings while the process environment changes.             *)
(***************************************************************************)
\* line 49: _ai_runtime = resolve_ai_runtime_config()
InitConfig ==
    /\ os_environ \in ProcessEnvs
    /\ env = NoEnvArg
    /\ source_read = Source(NoEnvArg, os_environ)
    /\ runtime = resolve_ai_runtime_config(NoEnvArg, os_environ)
    /\ EvalIdle /\ NormIdle /\ CtorIdle /\ TaskIdle

\* resolve_ai_runtime_config(e)
ResolveAiRuntimeConfig ==
    /\ \E e \in EnvArgs :
          /\ env' = e
          /\ source_read' = Source(e, os_environ)
          /\ runtime' = resolve_ai_runtime_config(e, os_environ)
    /\ UNCHANGED <<os_environ, evalVars, normVars, ctorVars, taskVars>>

\* the process changes its environment (os.environ[...] = ..., as in lines
\* 105-106); no call is made
SetEnviron ==
    /\ \E environ \in ProcessEnvs :
          /\ environ # os_environ
          /\ os_environ' = environ
    /\ UNCHANGED <<env, source_read, runtime, evalVars, normVars, ctorVars, taskVars>>

NextConfig == ResolveAiRuntimeConfig \/ SetEnviron

SpecConfig == InitConfig /\ [][NextConfig]_vars

(***************************************************************************)
(* Claims about keyword normalization.                                     *)
(***************************************************************************)
Normalized == kw_result # NotReturned

\* the pieces of a delimited string: what lies between any two delimiters
RECURSIVE Pieces(_, _, _)
Pieces(s, i, cur) ==
    IF i > Len(s) THEN <<cur>>
    ELSE IF s[i] \in Delimiters
         THEN <<cur>> \o Pieces(s, i + 1, <<>>)
         ELSE Pieces(s, i + 1, Append(cur, s[i]))

\* the raw entries the input holds, in input order
InputEntries ==
    CASE kw_value.type = "none" -> <<>>
      [] kw_value.type = "list" -> kw_value.v
      [] kw_value.type = "str" -> Pieces(kw_value.v, 1, <<>>)

\* the positions of the non-blank entries that no earlier entry equals
\* case-insensitively
FirstOccurrences ==
    {i \in 1..Len(InputEntries) :
        /\ Strip(InputEntries[i]) # <<>>
        /\ \A j \in 1..(i - 1) :
              Lower(Strip(InputEntries[j])) # Lower(Strip(InputEntries[i]))}

\* the k-th smallest element of a set of positions
RECURSIVE KthSmallest(_, _)
KthSmallest(S, k) ==
    LET m == CHOOSE x \in S : \A y \in S : x <= y
    IN  IF k = 1 THEN m ELSE KthSmallest(S \ {m}, k - 1)

\* C9: the normalized list has no blank entry and no two entries equal
\* case-insensitively, it is the first occurrences in input order,
\* normalizing it again returns it, and a delimited string normalizes as the
\* sequence of its pieces does.
C9_CanonicalForm ==
    Normalized =>
        /\ \A i \in 1..Len(kw_result) :
              /\ Strip(kw_result[i]) # <<>>
              /\ kw_result[i] = Strip(kw_result[i])
        /\ \A i, j \in 1..Len(kw_result) :
              i # j => Lower(kw_result[i]) # Lower(kw_result[j])
        /\ Len(kw_result) = Cardinality(FirstOccurrences)
        /\ \A k \in 1..Len(kw_result) :
              kw_result[k] = Strip(InputEntries[KthSmallest(FirstOccurrences, k)])
        /\ _normalize_keyword_values(ListValue(kw_result)) = kw_result
        /\ kw_value.type = "str" =>
              kw_result = _normalize_keyword_values(ListValue(Pieces(kw_value.v, 1, <<>>)))

\* C9 witness: a delimited string with a blank piece and a repeat differing
\* in case only was normalized to its first occurrence.
C9_Witness ==
    /\ Normalized
    /\ kw_value.type = "str"
    /\ Len(Pieces(kw_value.v, 1, <<>>)) = 3
    /\ \E i \in 1..3 : Strip(Pieces(kw_value.v, 1, <<>>)[i]) = <<>>
    /\ kw_result = <<<<"a">>>>
    /\ \E i \in 1..3 : Pieces(kw_value.v, 1, <<>>)[i] = <<"A">>

(***************************************************************************)
(* Claims about the evaluator.                                             *)
(***************************************************************************)
Evaluated == verdict # NoVerdict

NormalizedText == normalize_text(search_text)

\* the group at position i passes: it has a normalized include keyword, all
\* of them occur in the normalized text and no normalized exclude keyword does
GroupPasses(i) ==
    LET inc == _normalize_keywords(groups[i].include_keywords)
        exc == _normalize_keywords(groups[i].exclude_keywords)
    IN  /\ inc # <<>>
        /\ \A k \in 1..Len(inc) : Contains(NormalizedText, inc[k])
        /\ \A k \in 1..Len(exc) : ~Contains(NormalizedText, exc[k])

\* the name the verdict reports for the group at position i
ReportedName(i) == _extract_group_fields(groups[i], fallback_name(i)).name

\* keyword kw is a case-insensitive substring of the search text as given
RawSubstring(kw) == Contains(Lower(search_text), Lower(kw))

\* C2 as stated: for a non-empty text and one group with non-empty include
\* keywords, the group matches iff every include keyword is a
\* case-insensitive substring of the text and no exclude keyword is.
C2_TruthTableAsStated ==
    (/\ Evaluated
     /\ search_text # None /\ search_text # <<>>
     /\ Len(groups) = 1
     /\ groups[1].include_keywords # <<>>)
    => (verdict.is_recommended <=>
            /\ \A k \in 1..Len(groups[1].include_keywords) :
                    RawSubstring(groups[1].include_keywords[k])
            /\ \A k \in 1..Len(groups[1].exclude_keywords) :
                    ~RawSubstring(groups[1].exclude_keywords[k]))

\* C2 amended: with the text normalized (lower case, trimmed, whitespace runs
\* collapsed) and non-empty, and the keywords normalized the same way with
\* blank ones dropped and at least one include keyword left, the group
\* matches iff every include keyword is a substring of the normalized text
\* and no exclude keyword is.
C2_TruthTable ==
    (/\ Evaluated
     /\ NormalizedText # <<>>
     /\ Len(groups) = 1
     /\ _normalize_keywords(groups[1].include_keywords) # <<>>)
    => LET inc == _normalize_keywords(groups[1].include_keywords)
           exc == _normalize_keywords(groups[1].exclude_keywords)
           allIncluded == \A k \in 1..Len(inc) : Contains(NormalizedText, inc[k])
           someExcluded == \E k \in 1..Len(exc) : Contains(NormalizedText, exc[k])
       IN  /\ verdict.is_recommended <=> (allIncluded /\ ~someExcluded)
           /\ someExcluded => ~verdict.is_recommended
           /\ ~allIncluded => ~verdict.is_recommended

\* C2 witness: every include keyword of a two-keyword group is present, an
\* exclude keyword is hit, and the group was rejected.
C2_Witness ==
    /\ Evaluated
    /\ Len(groups) = 1
    /\ Len(_normalize_keywords(groups[1].include_keywords)) = 2
    /\ Missing(_normalize_keywords(groups[1].include_keywords), NormalizedText) = <<>>
    /\ \E k \in 1..Len(groups[1].exclude_keywords) :
           Contains(NormalizedText, normalize_text(groups[1].exclude_keywords[k]))
    /\ ~verdict.is_recommended

\* C3: the verdict recommends iff some group passes, and then matched_groups
\* is the one-element list with the name of the first passing group.
C3_FirstMatchWins ==
    Evaluated =>
        LET passing == {i \in 1..Len(groups) : GroupPasses(i)}
        IN  /\ verdict.is_recommended <=> (NormalizedText # <<>> /\ passing # {})
            /\ verdict.is_recommended =>
                  LET first == CHOOSE i \in passing : \A j \in passing : i <= j
                  IN  verdict.matched_groups = <<ReportedName(first)>>
            /\ NormalizedText = <<>> => passing = {}

\* C3 witness: the first group fails, the second and the third both pass,
\* and the second one is reported.
C3_Witness ==
    /\ Evaluated
    /\ Len(groups) = 3
    /\ ~GroupPasses(1) /\ GroupPasses(2) /\ GroupPasses(3)
    /\ ReportedName(2) # ReportedName(3)
    /\ verdict.matched_groups = <<ReportedName(2)>>

\* the reason string is not empty: a fixed message, or the join of at least
\* one group failure
ReasonNonEmpty(reason) ==
    \/ reason.kind \in {"no_text", "no_groups", "nothing_matched", "matched"}
    \/ reason.kind = "group_failures" /\ reason.parts # <<>>

Negative(v) ==
    /\ v.analysis_source = "keyword"
    /\ ~v.is_recommended
    /\ ReasonNonEmpty(v.reason)

\* C8: every call returns a verdict; the verdict is negative with a non-empty
\* reason when the normalized text is empty (before the groups are looked
\* at), when there is no group, and when every group lacks include keywords;
\* a group without include keywords never matches, is recorded as a failure
\* and does not stop the groups after it from being evaluated.
C8_DegenerateInput ==
    Evaluated =>
        /\ verdict.analysis_source = "keyword"
        /\ NormalizedText = <<>> => (Negative(verdict) /\ verdict.reason.kind = "no_text")
        /\ (NormalizedText # <<>> /\ groups = <<>>) =>
              (Negative(verdict) /\ verdict.reason.kind = "no_groups")
        /\ (\A i \in 1..Len(groups) : groups[i].include_keywords = <<>>) =>
              Negative(verdict)
        /\ \A i \in 1..Len(groups) :
              (NormalizedText # <<>> /\ groups[i].include_keywords = <<>>) =>
                /\ ~GroupPasses(i)
                /\ (\A j \in 1..(i - 1) : ~GroupPasses(j)) =>
                      /\ ~(verdict.is_recommended /\ \A j \in (i + 1)..Len(groups) : ~GroupPasses(j))
                      /\ (\E j \in (i + 1)..Len(groups) : GroupPasses(j)) => verdict.is_recommended
                /\ (~verdict.is_recommended /\ i <= ReasonCap) =>
                      /\ verdict.reason.kind = "group_failures"
                      /\ verdict.reason.parts[i].detail = "no_include"
                      /\ verdict.reason.parts[i].name = ReportedName(i)

\* C8 witness: a group without include keywords comes first and a later
\* group is still evaluated and matches.
C8_Witness ==
    /\ Evaluated
    /\ Len(groups) >= 2
    /\ groups[1].include_keywords = <<>>
    /\ GroupPasses(2)
    /\ verdict.is_recommended
    /\ verdict.matched_groups = <<ReportedName(2)>>

\* C12: every verdict has analysis_source = keyword; it recommends iff
\* matched_groups holds exactly one name, and then matched_keywords is the
\* non-empty normalized include list of the group that matched; a verdict
\* that does not recommend has empty matched_groups and matched_keywords;
\* blocked_keywords is empty in every verdict, a rejection by an exclude
\* keyword included.
C12_VerdictConsistency ==
    Evaluated =>
        /\ verdict.analysis_source = "keyword"
        /\ verdict.is_recommended <=> Len(verdict.matched_groups) = 1
        /\ verdict.is_recommended =>
              \E i \in 1..Len(groups) :
                  /\ GroupPasses(i)
                  /\ \A j \in 1..(i - 1) : ~GroupPasses(j)
                  /\ verdict.matched_groups = <<ReportedName(i)>>
                  /\ verdict.matched_keywords = _normalize_keywords(groups[i].include_keywords)
                  /\ verdict.matched_keywords # <<>>
        /\ ~verdict.is_recommended =>
              /\ verdict.matched_groups = <<>>
              /\ verdict.matched_keywords = <<>>
        /\ verdict.blocked_keywords = <<>>

\* C12 witness: the only group has all its include keywords in the text and
\* is rejected for an exclude keyword, which the reason names and
\* blocked_keywords does not.
C12_Witness ==
    /\ Evaluated
    /\ Len(groups) = 1
    /\ LET inc == _normalize_keywords(groups[1].include_keywords)
           exc == _normalize_keywords(groups[1].exclude_keywords)
       IN  /\ inc # <<>>
           /\ Missing(inc, NormalizedText) = <<>>
           /\ Blocked(exc, NormalizedText) # <<>>
           /\ verdict.reason.kind = "group_failures"
           /\ verdict.reason.parts[1].blocked = Blocked(exc, NormalizedText)
    /\ ~verdict.is_recommended
    /\ verdict.matched_groups = <<>>
    /\ verdict.blocked_keywords = <<>>

(***************************************************************************)
(* Properties of the Task constructors (SpecCtor).                         *)
(***************************************************************************)
Blank(description) ==
    \/ description = Absent
    \/ description = None
    \/ Strip(description) = <<>>

\* some rule group holds a non-empty include_keywords list
HasIncludeGroup(gs) ==
    /\ gs # NoneGroups
    /\ \E i \in 1..Len(gs) : gs[i].include_keywords # <<>>

PayloadHasIncludeGroup ==
    /\ payload.keyword_rule_groups # AbsentGroups
    /\ HasIncludeGroup(GroupObjects(payload.keyword_rule_groups))

\* C4: constructing a Task or a TaskCreate with decision_mode = ai and a
\* blank or absent description, or with decision_mode = keyword and no rule
\* group that has a non-empty include_keywords list, fails with a validation
\* error and produces no value.
C4_ConstructionValidation ==
    (/\ built.cls \in {"Task", "TaskCreate"}
     /\ \/ payload.decision_mode = "ai" /\ Blank(payload.description)
        \/ payload.decision_mode = "keyword" /\ ~PayloadHasIncludeGroup)
    => (built.error /\ built.value = <<>>)

(***************************************************************************)
(* Properties of Task.apply_update, can_start and can_stop (SpecTask).     *)
(***************************************************************************)
TaskConsistent(t) ==
    /\ t.decision_mode = "ai" => ~Blank(t.description)
    /\ t.decision_mode = "keyword" => HasIncludeGroup(t.keyword_rule_groups)

\* C1: every Task reached from a validated TaskCreate by apply_update calls
\* with validated TaskUpdates has a non-blank description if its
\* decision_mode is ai, and a rule group with a non-empty include_keywords
\* list if its decision_mode is keyword.
C1_DecisionStrategyInvariant ==
    /\ TaskConsistent(task)
    /\ phase = "applied" => TaskConsistent(result)

\* C7: t.apply_update(u) returns a Task in which exactly the fields supplied
\* in u carry u's values and every other field equals its value in t; t is
\* unchanged by the call; an update that supplies no field, or only values
\* equal to t's, returns a Task equal to t.
C7_ApplyUpdateFrame ==
    [][(phase = "built" /\ phase' = "applied") =>
          /\ task' = task
          /\ \A f \in TaskFields :
                result'[f] = IF f \in update.fields_set THEN update.values[f] ELSE task[f]
          /\ (\A f \in update.fields_set : update.values[f] = task[f]) => result' = task]_vars

\* C10: can_start() is true iff enabled is true and is_running is false;
\* can_stop() is true iff is_running is true; the two are never both true;
\* a call of either returns that value and leaves every field of the Task
\* as it was.
C10_LifecycleGuards ==
    /\ Truthy(can_start(task)) <=> (Truthy(task.enabled) /\ ~Truthy(task.is_running))
    /\ Truthy(can_stop(task)) <=> Truthy(task.is_running)
    /\ ~(Truthy(can_start(task)) /\ Truthy(can_stop(task)))
    /\ ret.op = "can_start" =>
          /\ task = ret.self
          /\ Truthy(ret.value) <=> (Truthy(task.enabled) /\ ~Truthy(task.is_running))
    /\ ret.op = "can_stop" =>
          /\ task = ret.self
          /\ Truthy(ret.value) <=> Truthy(task.is_running)

\* can_stop() answered true on an enabled Task that an update marked running,
\* where can_start() is false
C10_Witness ==
    /\ ret.op = "can_stop"
    /\ Truthy(ret.value)
    /\ Truthy(task.enabled)
    /\ Truthy(task.is_running)
    /\ ~Truthy(can_start(task))

(***************************************************************************)
(* Properties of resolve_ai_runtime_config (SpecConfig).                   *)
(***************************************************************************)
\* the mapping the last call read
ReadMapping == source_read

Present(x) == x # NotSet /\ x # ""

BothKeys ==
    /\ Present(ReadMapping["OPENAI_API_KEY"])
    /\ Present(ReadMapping["GEMINI_API_KEY"])

C6_GeminiEndpointPrefersGeminiKey ==
    (BothKeys /\ ReadMapping["OPENAI_BASE_URL"] = GEMINI_OPENAI_COMPAT_BASE_URL)
    => /\ runtime.api_key = ReadMapping["GEMINI_API_KEY"]
       /\ runtime.is_gemini_openai_compat

\* C11: the result of resolve_ai_runtime_config(env) is determined by the
\* mapping env alone: a call with the same mapping as the call before it,
\* the empty mapping included, returns the same result whatever the process
\* environment has become in between.
C11_ResolverPurity ==
    [][(env'.given /\ env' = env) => runtime' = runtime]_vars

====
